---------------------------- MODULE Spec2Model ----------------------------
(***************************************************************************)
(* Model of the graceful-shutdown HTTP server wrapper (package graceful). *)
(*                                                                         *)
(* The goroutines of Server.Serve (src/graceful.go:108-188) are modelled   *)
(* as interleaved processes:                                               *)
(*   - the coordinator (the goroutine that called Serve): accept loop,     *)
(*     stop request, wait for done / timer, kill, return;                  *)
(*   - the tracker (go func at lines 129-154) that owns `connections`;     *)
(*   - the signal watcher (go func at lines 162-169);                      *)
(*   - one net/http connection goroutine per connection, which calls the   *)
(*     ConnState callback (lines 113-124) synchronously.                   *)
(* The channels add, remove, stop, kill and done are unbuffered: a send    *)
(* and its receive are one step (a rendezvous), and a sender whose         *)
(* receiver never comes stays blocked.  The older function run             *)
(* (src/graceful.go:279-350) has the same tracker, watcher and             *)
(* coordinator.                                                            *)
(***************************************************************************)
EXTENDS Naturals, FiniteSets

\* Number of client connections the environment may open.
MaxConns == 2
\* Number of termination signals the environment may deliver.
MaxSignals == 2

\* Capacity of the interrupt channel: make(chan os.Signal, 1).
SigCap == 1

Conns == 1..MaxConns

\* The exported entry points that end in Server.Serve.  Run calls
\* ListenAndServe and then classifies the value it returns.
EntryPoints == {"ListenAndServe", "ListenAndServeTLS", "Serve"}

VARIABLES
    entry,           \* the entry point that was called
    timeout,         \* srv.Timeout (0 = never time out)
    mainPc,          \* coordinator: "cert","listen","enter","serve","stop","wait","kill","returned"
    err,             \* local err: result of LoadX509KeyPair / net.Listen / srv.Server.Serve
    retVal,          \* value the entry point returned to its caller
    created,         \* net.Listen has returned a listener to the entry point
    outcome,         \* "none", "Stopped" (done received), "Forced" (kill sent)
    runResult,       \* what Run does with err: "pending", "success" (returns), "fatal" (logger.Fatal)
    trkPc,           \* tracker: "unstarted", "select", "done" (blocked in done <-), "killing", "exited"
    connections,     \* the tracker's map of connections
    doneReg,         \* tracker's done != nil
    doneSignals,     \* number of times the tracker has executed done <- struct{}{}
    forced,          \* connections the tracker has called Close() on
    listenerOpen,    \* the listener accepts connections
    listenerCloses,  \* number of listener.Close() calls made by the watcher
    keepAlive,       \* the server's keep-alive flag
    notifyOn,        \* signal.Notify in force (before signal.Stop)
    sigBuf,          \* signals buffered in srv.interrupt
    sigClosed,       \* srv.interrupt has been closed
    nSig,            \* signals put in srv.interrupt so far
    wPc,             \* watcher: "unstarted","range","keepalive","close","sigstop","closech","exited","panic"
    shutdownRuns,    \* number of times the watcher's loop body has started
    st,              \* per connection: last ConnState whose callback completed
    pend,            \* per connection: state whose callback is blocked in add<- / remove<-
    resp,            \* per connection: what the client saw for its last attempt/request
    lateDial,        \* connections dialled after the watcher closed the listener
    acceptedLate,    \* connections accepted after the watcher closed the listener
    idleAtStop,      \* the stop request was processed with an empty active set
    midReqAtReturn   \* connections that had reported Active, and neither Idle nor Closed
                     \* since, at the moment Serve returned

vars == << entry, timeout, mainPc, err, retVal, created, outcome, runResult, trkPc, connections, doneReg,
           doneSignals,           forced, listenerOpen, listenerCloses, keepAlive, notifyOn, sigBuf,
           sigClosed, nSig, wPc, shutdownRuns, st, pend, resp, lateDial,
           acceptedLate, idleAtStop, midReqAtReturn >>

coordVars == << mainPc, err, retVal, created, outcome, runResult >>
trkVars   == << trkPc, connections, doneReg, doneSignals, forced >>
sigVars   == << notifyOn, sigBuf, sigClosed, nSig, wPc, shutdownRuns >>
lsnVars   == << listenerOpen, listenerCloses, keepAlive >>
connVars  == << st, pend, resp, lateDial, acceptedLate >>
histVars  == << idleAtStop, midReqAtReturn >>

-----------------------------------------------------------------------------
(* Errors: a *net.OpError carries the operation and the underlying cause. *)

NoErr           == [opErr |-> FALSE, op |-> "none",   cause |-> "nil"]
CertErr         == [opErr |-> FALSE, op |-> "none",   cause |-> "keypair"]
BindErr         == [opErr |-> TRUE,  op |-> "listen", cause |-> "addrinuse"]
AcceptClosedErr == [opErr |-> TRUE,  op |-> "accept", cause |-> "closed"]
AcceptOtherErr  == [opErr |-> TRUE,  op |-> "accept", cause |-> "other"]

\* Run: if err != nil { if opErr, ok := err.(*net.OpError);
\*                       !ok || (ok && opErr.Op != "accept") { logger.Fatal(err) } }
RunFatal(e) == e # NoErr /\ (~e.opErr \/ (e.opErr /\ e.op # "accept"))

\* Run either calls logger.Fatal(err) or returns normally.
RunResult(e) == IF RunFatal(e) THEN "fatal" ELSE "success"

TimerArmed_Always == TRUE

\* if srv.Timeout > 0 { select { case <-done: case <-time.After(srv.Timeout): ... } }
TimerArmed == timeout > 0

\* A panic in any goroutine ends the process.
Alive == wPc # "panic"

\* The transport of connection c is open.
Open(c) == st[c] \in {"new", "active", "idle"} /\ pend[c] # "closed" /\ c \notin forced

\* The watcher has started handling a signal.
SigHandled == shutdownRuns > 0

\* Connections that are mid-request: the ConnState callback has been called
\* with StateActive (it is blocked in add <- conn, or has returned) and not
\* yet with StateIdle or StateClosed.
MidRequest == {c \in Conns : pend[c] = "active" \/ (st[c] = "active" /\ pend[c] = "none")}

-----------------------------------------------------------------------------
\* Where each entry point starts: ListenAndServeTLS loads the key pair
\* first, ListenAndServe binds first, Serve is given a listener.
EntryPc(e) == CASE e = "ListenAndServeTLS" -> "cert"
                [] e = "ListenAndServe"    -> "listen"
                [] e = "Serve"             -> "enter"

Init ==
    /\ entry \in EntryPoints
    /\ timeout \in {0, 1}
    /\ mainPc = EntryPc(entry)
    /\ err = NoErr
    /\ retVal = NoErr
    /\ created = FALSE
    /\ outcome = "none"
    /\ runResult = "pending"
    /\ trkPc = "unstarted"
    /\ connections = {}
    /\ doneReg = FALSE
    /\ doneSignals = 0
    /\ forced = {}
    /\ listenerOpen = (entry = "Serve")
    /\ listenerCloses = 0
    /\ keepAlive = TRUE
    /\ notifyOn = FALSE
    /\ sigBuf = 0
    /\ sigClosed = FALSE
    /\ nSig = 0
    /\ wPc = "unstarted"
    /\ shutdownRuns = 0
    /\ st = [c \in Conns |-> "none"]
    /\ pend = [c \in Conns |-> "none"]
    /\ resp = [c \in Conns |-> "none"]
    /\ lateDial = {}
    /\ acceptedLate = {}
    /\ idleAtStop = FALSE
    /\ midReqAtReturn = {}

-----------------------------------------------------------------------------
(* Entry points (lines 44-106) and the set-up part of Serve (108-169).     *)

\* ListenAndServeTLS: tls.LoadX509KeyPair succeeds.
CertOk ==
    /\ Alive
    /\ mainPc = "cert"
    /\ mainPc' = "listen"
    /\ UNCHANGED << entry, timeout, err, retVal, created, outcome, runResult,
                    trkVars, lsnVars, sigVars, connVars, histVars >>

CertFail_AfterListen ==
    /\ Alive
    /\ mainPc = "cert"
    /\ mainPc' = "returned"
    /\ err' = CertErr
    /\ retVal' = err'
    /\ created' = TRUE
    /\ listenerOpen' = TRUE
    /\ UNCHANGED << entry, timeout, outcome, runResult, trkVars,
                    listenerCloses, keepAlive, sigVars, connVars, histVars >>

\* ListenAndServeTLS: tls.LoadX509KeyPair fails; the error is returned.
CertFail ==
    /\ Alive
    /\ mainPc = "cert"
    /\ mainPc' = "returned"
    /\ err' = CertErr
    /\ retVal' = err'
    /\ UNCHANGED << entry, timeout, created, outcome, runResult,
                    trkVars, lsnVars, sigVars, connVars, histVars >>

\* net.Listen succeeds; the listener is passed to srv.Serve.
ListenOk ==
    /\ Alive
    /\ mainPc = "listen"
    /\ mainPc' = "enter"
    /\ created' = TRUE
    /\ listenerOpen' = TRUE
    /\ UNCHANGED << entry, timeout, err, retVal, outcome, runResult, trkVars,
                    listenerCloses, keepAlive, sigVars, connVars, histVars >>

\* net.Listen fails: the entry point returns the error, nothing is started.
\* Run (lines 32-37) then classifies the error.
ListenFail ==
    /\ Alive
    /\ mainPc = "listen"
    /\ mainPc' = "returned"
    /\ err' = BindErr
    /\ retVal' = err'
    /\ runResult' = IF entry = "ListenAndServe" THEN RunResult(err') ELSE runResult
    /\ UNCHANGED << entry, timeout, created, outcome, trkVars, lsnVars, sigVars,
                    connVars, histVars >>

\* Serve installs the ConnState callback, starts the tracker and the watcher,
\* calls signal.Notify and enters the accept loop.
ServeStart ==
    /\ Alive
    /\ mainPc = "enter"
    /\ mainPc' = "serve"
    /\ trkPc' = "select"
    /\ wPc' = "range"
    /\ notifyOn' = TRUE
    /\ UNCHANGED << entry, timeout, err, retVal, created, outcome, runResult,
                    connections, doneReg, doneSignals, forced, lsnVars, sigBuf, sigClosed,
                    nSig, shutdownRuns, connVars, histVars >>

-----------------------------------------------------------------------------
(* The accept loop, srv.Server.Serve(listener) (line 172).                 *)

\* A client dials the address: queued while the listener is open, refused
\* otherwise.
Dial(c) ==
    /\ Alive
    /\ mainPc \notin {"cert", "listen"}
    /\ st[c] = "none"
    /\ IF listenerOpen
          THEN /\ st' = [st EXCEPT ![c] = "backlog"]
               /\ resp' = resp
          ELSE /\ st' = [st EXCEPT ![c] = "refused"]
               /\ resp' = [resp EXCEPT ![c] = "refused"]
    /\ lateDial' = IF listenerCloses > 0 THEN lateDial \cup {c} ELSE lateDial
    /\ UNCHANGED << entry, timeout, coordVars, trkVars, lsnVars, sigVars,
                    pend, acceptedLate, histVars >>

\* Accept returns a connection; its goroutine reports StateNew, for which the
\* callback sends nothing to the tracker.
AcceptConn(c) ==
    /\ Alive
    /\ mainPc = "serve"
    /\ listenerOpen
    /\ st[c] = "backlog"
    /\ st' = [st EXCEPT ![c] = "new"]
    /\ acceptedLate' = IF listenerCloses > 0 THEN acceptedLate \cup {c} ELSE acceptedLate
    /\ UNCHANGED << entry, timeout, coordVars, trkVars, lsnVars, sigVars,
                    pend, resp, lateDial, histVars >>

\* Accept fails because the listener was closed: the accept loop returns.
AcceptLoopReturn ==
    /\ Alive
    /\ mainPc = "serve"
    /\ ~listenerOpen
    /\ mainPc' = "stop"
    /\ err' = AcceptClosedErr
    /\ UNCHANGED << entry, timeout, retVal, created, outcome, runResult, trkVars, lsnVars, sigVars,
                    connVars, histVars >>

\* Accept fails for another, permanent reason while the listener is open.
AcceptFail ==
    /\ Alive
    /\ mainPc = "serve"
    /\ listenerOpen
    /\ mainPc' = "stop"
    /\ err' = AcceptOtherErr
    /\ UNCHANGED << entry, timeout, retVal, created, outcome, runResult, trkVars, lsnVars, sigVars,
                    connVars, histVars >>

-----------------------------------------------------------------------------
(* Connection goroutines of net/http and the ConnState callback            *)
(* (lines 113-124).  pend[c] is the state the callback was called with     *)
(* while it is blocked in add <- conn or remove <- conn; st[c] is the last *)
(* state for which the callback ran to its end (and the user hook, called  *)
(* after the send, saw).                                                   *)

\* A request arrives on a new or idle connection: callback(StateActive)
\* blocks in add <- conn.
BeginRequest(c) ==
    /\ Alive
    /\ st[c] \in {"new", "idle"}
    /\ pend[c] = "none"
    /\ pend' = [pend EXCEPT ![c] = "active"]
    /\ resp' = [resp EXCEPT ![c] = "none"]
    /\ lateDial' = lateDial
    /\ UNCHANGED << entry, timeout, coordVars, trkVars, lsnVars, sigVars,
                    st, acceptedLate, histVars >>

\* The handler returns.  On a transport the tracker closed the response is
\* lost; otherwise the client gets it, and the connection goes idle when
\* keep-alive is enabled (and the client wants it) or is closed.
FinishRequest(c) ==
    /\ Alive
    /\ st[c] = "active"
    /\ pend[c] = "none"
    /\ IF c \in forced
          THEN /\ resp' = [resp EXCEPT ![c] = "reset"]
               /\ pend' = [pend EXCEPT ![c] = "closed"]
          ELSE /\ resp' = [resp EXCEPT ![c] = "200"]
               /\ \E s \in (IF keepAlive THEN {"idle", "closed"} ELSE {"closed"}) :
                     pend' = [pend EXCEPT ![c] = s]
    /\ UNCHANGED << entry, timeout, coordVars, trkVars, lsnVars, sigVars,
                    st, lateDial, acceptedLate, histVars >>

\* A connection with no request in flight is closed by its client:
\* callback(StateClosed) blocks in remove <- conn.
ClientClose(c) ==
    /\ Alive
    /\ st[c] \in {"new", "idle"}
    /\ pend[c] = "none"
    /\ pend' = [pend EXCEPT ![c] = "closed"]
    /\ UNCHANGED << entry, timeout, coordVars, trkVars, lsnVars, sigVars,
                    st, resp, lateDial, acceptedLate, histVars >>

-----------------------------------------------------------------------------
(* The tracker goroutine (lines 129-154).                                  *)

\* connections[conn] = struct{}{}
AddConn(conns, c) == conns \cup {c}

RemoveConn_Keep(conns, c) == conns

\* delete(connections, conn): a no-op when conn is not a key of the map.
RemoveConn(conns, c) == conns \ {c}

\* case conn := <-add: connections[conn] = struct{}{}
TrackerAdd(c) ==
    /\ Alive
    /\ trkPc = "select"
    /\ pend[c] = "active"
    /\ connections' = AddConn(connections, c)
    /\ st' = [st EXCEPT ![c] = "active"]
    /\ pend' = [pend EXCEPT ![c] = "none"]
    /\ UNCHANGED << entry, timeout, coordVars, trkPc, doneReg, doneSignals, forced,
                    lsnVars, sigVars, resp, lateDial, acceptedLate, histVars >>

RemoveSignalsDone_NoLenCheck(conns) == doneReg

\* if done != nil && len(connections) == 0
RemoveSignalsDone(conns) == doneReg /\ conns = {}

\* case conn := <-remove: delete(connections, conn); if ... { done <- struct{}{}; return }
TrackerRemove(c) ==
    /\ Alive
    /\ trkPc = "select"
    /\ pend[c] \in {"idle", "closed"}
    /\ connections' = RemoveConn(connections, c)
    /\ st' = [st EXCEPT ![c] = pend[c]]
    /\ pend' = [pend EXCEPT ![c] = "none"]
    /\ trkPc' = IF RemoveSignalsDone(connections') THEN "done" ELSE "select"
    /\ doneSignals' = IF RemoveSignalsDone(connections') THEN doneSignals + 1 ELSE doneSignals
    /\ UNCHANGED << entry, timeout, coordVars, doneReg, forced, lsnVars,
                    sigVars, resp, lateDial, acceptedLate, histVars >>

\* if len(connections) == 0
StopSignalsDone(conns) == conns = {}

TrackerStop_NotReceived ==
    /\ Alive
    /\ mainPc = "stop"
    /\ mainPc' = "wait"
    /\ UNCHANGED << entry, timeout, err, retVal, created, outcome, runResult,
                    trkVars, lsnVars, sigVars, connVars, histVars >>

\* Coordinator: done := make(chan struct{}); stop <- done   (lines 175-176)
\* Tracker:     case done = <-stop: if ... { done <- struct{}{}; return }
TrackerStop ==
    /\ Alive
    /\ trkPc = "select"
    /\ mainPc = "stop"
    /\ mainPc' = "wait"
    /\ doneReg' = TRUE
    /\ trkPc' = IF StopSignalsDone(connections) THEN "done" ELSE "select"
    /\ doneSignals' = IF StopSignalsDone(connections) THEN doneSignals + 1 ELSE doneSignals
    /\ idleAtStop' = (connections = {})
    /\ UNCHANGED << entry, timeout, err, retVal, created, outcome, runResult,
                    connections, forced, lsnVars, sigVars, connVars, midReqAtReturn >>

\* Tracker: done <- struct{}{}; return.  Coordinator: <-done (lines 180, 185);
\* return err, which Run (lines 32-37) classifies.
CoordDone ==
    /\ Alive
    /\ mainPc = "wait"
    /\ trkPc = "done"
    /\ mainPc' = "returned"
    /\ trkPc' = "exited"
    /\ outcome' = "Stopped"
    /\ retVal' = err
    /\ runResult' = IF entry = "ListenAndServe" THEN RunResult(err) ELSE runResult
    /\ midReqAtReturn' = MidRequest
    /\ UNCHANGED << entry, timeout, err, created, connections, doneReg, doneSignals, forced,
                    lsnVars, sigVars, connVars, idleAtStop >>

TimerExpire_Unselected ==
    /\ Alive
    /\ mainPc \in {"wait", "returned"}
    /\ outcome # "Forced"
    /\ TimerArmed
    /\ mainPc' = "kill"
    /\ UNCHANGED << entry, timeout, err, retVal, created, outcome, runResult, trkVars,
                    lsnVars, sigVars, connVars, histVars >>

\* Coordinator: case <-time.After(srv.Timeout): the select takes the timer
\* branch and goes on to kill <- struct{}{}.
TimerExpire ==
    /\ Alive
    /\ mainPc = "wait"
    /\ TimerArmed
    /\ mainPc' = "kill"
    /\ UNCHANGED << entry, timeout, err, retVal, created, outcome, runResult, trkVars, lsnVars, sigVars,
                    connVars, histVars >>

\* Coordinator: kill <- struct{}{}; return err, which Run classifies.
\* Tracker: case <-kill.
TrackerKill ==
    /\ Alive
    /\ trkPc = "select"
    /\ mainPc = "kill"
    /\ mainPc' = "returned"
    /\ outcome' = "Forced"
    /\ trkPc' = "killing"
    /\ retVal' = err
    /\ runResult' = IF entry = "ListenAndServe" THEN RunResult(err) ELSE runResult
    /\ midReqAtReturn' = MidRequest
    /\ UNCHANGED << entry, timeout, err, created, connections, doneReg, doneSignals, forced,
                    lsnVars, sigVars, connVars, idleAtStop >>

CloseAll_OnlyOne(conns) == IF conns = {} THEN {} ELSE {CHOOSE c \in conns : TRUE}

\* for k := range connections { k.Close() }
CloseAll(conns) == conns

\* Tracker: for k := range connections { k.Close() }; return
TrackerCloseAll ==
    /\ Alive
    /\ trkPc = "killing"
    /\ forced' = CloseAll(connections)
    /\ trkPc' = "exited"
    /\ UNCHANGED << entry, timeout, coordVars, connections, doneReg, doneSignals,
                    lsnVars, sigVars, connVars, histVars >>

-----------------------------------------------------------------------------
(* Signals and the watcher goroutine (lines 156-169).                      *)

\* The OS delivers SIGINT/SIGTERM and os/signal puts it in the channel.  It
\* sends without blocking: a signal that finds the buffer full is dropped and
\* changes nothing.
SignalArrives ==
    /\ Alive
    /\ notifyOn
    /\ nSig < MaxSignals
    /\ sigBuf < SigCap
    /\ nSig' = nSig + 1
    /\ sigBuf' = sigBuf + 1
    /\ UNCHANGED << entry, timeout, coordVars, trkVars, lsnVars, notifyOn,
                    sigClosed, wPc, shutdownRuns, connVars, histVars >>

\* for _ = range srv.interrupt: a value is received (a closed channel still
\* yields the values left in its buffer).
WatcherRecv ==
    /\ Alive
    /\ wPc = "range"
    /\ sigBuf > 0
    /\ sigBuf' = sigBuf - 1
    /\ wPc' = "keepalive"
    /\ shutdownRuns' = shutdownRuns + 1
    /\ UNCHANGED << entry, timeout, coordVars, trkVars, lsnVars, notifyOn,
                    sigClosed, nSig, connVars, histVars >>

\* The range loop ends when the channel is closed and drained.
WatcherRangeEnd ==
    /\ Alive
    /\ wPc = "range"
    /\ sigBuf = 0
    /\ sigClosed
    /\ wPc' = "exited"
    /\ UNCHANGED << entry, timeout, coordVars, trkVars, lsnVars, notifyOn,
                    sigBuf, sigClosed, nSig, shutdownRuns, connVars, histVars >>

\* srv.SetKeepAlivesEnabled(false)
WatcherKeepAlive ==
    /\ Alive
    /\ wPc = "keepalive"
    /\ keepAlive' = FALSE
    /\ wPc' = "close"
    /\ UNCHANGED << entry, timeout, coordVars, trkVars, listenerOpen,
                    listenerCloses, notifyOn, sigBuf, sigClosed, nSig,
                    shutdownRuns, connVars, histVars >>

WatcherCloseListener_NoClose ==
    /\ Alive
    /\ wPc = "close"
    /\ listenerCloses' = listenerCloses + 1
    /\ wPc' = "sigstop"
    /\ UNCHANGED << entry, timeout, coordVars, trkVars, listenerOpen,
                    keepAlive, notifyOn, sigBuf, sigClosed, nSig, shutdownRuns,
                    connVars, histVars >>

\* listener.Close(): connections still queued on the listener are reset.
WatcherCloseListener ==
    /\ Alive
    /\ wPc = "close"
    /\ listenerOpen' = FALSE
    /\ listenerCloses' = listenerCloses + 1
    /\ st' = [c \in Conns |-> IF st[c] = "backlog" THEN "refused" ELSE st[c]]
    /\ resp' = [c \in Conns |-> IF st[c] = "backlog" THEN "refused" ELSE resp[c]]
    /\ wPc' = "sigstop"
    /\ UNCHANGED << entry, timeout, coordVars, trkVars, keepAlive, notifyOn,
                    sigBuf, sigClosed, nSig, shutdownRuns, pend, lateDial,
                    acceptedLate, histVars >>

\* signal.Stop(srv.interrupt)
WatcherSignalStop ==
    /\ Alive
    /\ wPc = "sigstop"
    /\ notifyOn' = FALSE
    /\ wPc' = "closech"
    /\ UNCHANGED << entry, timeout, coordVars, trkVars, lsnVars, sigBuf,
                    sigClosed, nSig, shutdownRuns, connVars, histVars >>

\* close(srv.interrupt): closing a closed channel panics.
WatcherCloseChan ==
    /\ Alive
    /\ wPc = "closech"
    /\ wPc' = IF sigClosed THEN "panic" ELSE "range"
    /\ sigClosed' = TRUE
    /\ UNCHANGED << entry, timeout, coordVars, trkVars, lsnVars, notifyOn,
                    sigBuf, nSig, shutdownRuns, connVars, histVars >>

-----------------------------------------------------------------------------
Next ==
    \/ CertOk
    \/ CertFail
    \/ ListenOk
    \/ ListenFail
    \/ ServeStart
    \/ \E c \in Conns : Dial(c)
    \/ \E c \in Conns : AcceptConn(c)
    \/ AcceptLoopReturn
    \/ AcceptFail
    \/ \E c \in Conns : BeginRequest(c)
    \/ \E c \in Conns : FinishRequest(c)
    \/ \E c \in Conns : ClientClose(c)
    \/ \E c \in Conns : TrackerAdd(c)
    \/ \E c \in Conns : TrackerRemove(c)
    \/ TrackerStop
    \/ CoordDone
    \/ TimerExpire
    \/ TrackerKill
    \/ TrackerCloseAll
    \/ SignalArrives
    \/ WatcherRecv
    \/ WatcherRangeEnd
    \/ WatcherKeepAlive
    \/ WatcherCloseListener
    \/ WatcherSignalStop
    \/ WatcherCloseChan

Spec == Init /\ [][Next]_vars

TypeOK ==
    /\ entry \in EntryPoints
    /\ timeout \in {0, 1}
    /\ mainPc \in {"cert", "listen", "enter", "serve", "stop", "wait", "kill", "returned"}
    /\ err \in {NoErr, CertErr, BindErr, AcceptClosedErr, AcceptOtherErr}
    /\ retVal \in {NoErr, CertErr, BindErr, AcceptClosedErr, AcceptOtherErr}
    /\ created \in BOOLEAN
    /\ outcome \in {"none", "Stopped", "Forced"}
    /\ runResult \in {"pending", "success", "fatal"}
    /\ trkPc \in {"unstarted", "select", "done", "killing", "exited"}
    /\ connections \subseteq Conns
    /\ doneReg \in BOOLEAN
    /\ doneSignals \in 0..1
    /\ forced \subseteq Conns
    /\ listenerOpen \in BOOLEAN
    /\ listenerCloses \in 0..MaxSignals
    /\ keepAlive \in BOOLEAN
    /\ notifyOn \in BOOLEAN
    /\ sigBuf \in 0..SigCap
    /\ sigClosed \in BOOLEAN
    /\ nSig \in 0..MaxSignals
    /\ wPc \in {"unstarted", "range", "keepalive", "close", "sigstop", "closech",
                "exited", "panic"}
    /\ shutdownRuns \in 0..MaxSignals
    /\ st \in [Conns -> {"none", "backlog", "refused", "new", "active", "idle", "closed"}]
    /\ pend \in [Conns -> {"none", "active", "idle", "closed"}]
    /\ resp \in [Conns -> {"none", "200", "reset", "refused"}]
    /\ lateDial \subseteq Conns
    /\ acceptedLate \subseteq Conns
    /\ idleAtStop \in BOOLEAN
    /\ midReqAtReturn \subseteq Conns

-----------------------------------------------------------------------------
(* Properties.                                                             *)

\* Serve has returned after running the accept loop.
ServeReturned == mainPc = "returned" /\ err \notin {CertErr, BindErr}

\* No connection has ever had a request reported or served.
NoneEverActive ==
    \A c \in Conns : /\ st[c] \notin {"active", "idle"}
                    /\ pend[c] # "active"
                    /\ resp[c] \notin {"200", "reset"}

\* The coordinator is blocked in kill <- struct{}{} and the tracker will
\* never be in its select again: Serve can never return.
KillUndeliverable == mainPc = "kill" /\ trkPc # "select"

\* C1: Graceful completion.  In every run in which the timer does not cut the
\* in-flight requests short (no Kill reaches the tracker; this includes
\* timeout = 0), the tracker force-closes no connection, no request loses its
\* response, and at the moment Serve returns after a shutdown by signal no
\* connection is mid-request: none has reported Active without a later Idle
\* or Closed report.
C1_GracefulCompletion ==
    outcome # "Forced" =>
        /\ forced = {}
        /\ \A c \in Conns : resp[c] # "reset"
        /\ (ServeReturned /\ err = AcceptClosedErr) => midReqAtReturn = {}

\* C2: Forced timeout terminates.  Once the timer branch is taken, the
\* coordinator's Kill is always received: while the coordinator is sending
\* Kill the tracker is waiting in its select (it is never blocked elsewhere
\* or gone), so Serve returns.  Stated for a shutdown by signal with requests
\* in flight when the stop request was processed.
C2_KillAlwaysReceived ==
    (mainPc = "kill" /\ err = AcceptClosedErr /\ ~idleAtStop) => trkPc = "select"

\* C3: After a Forced outcome no accepted connection remains open: once Serve
\* has returned with Forced and the tracker has finished handling Kill, every
\* connection is closed.
C3_ForcedClosesAll ==
    (ServeReturned /\ err = AcceptClosedErr /\ outcome = "Forced" /\ trkPc = "exited") =>
        \A c \in Conns : ~Open(c)

\* C4: No in-flight work.  When the signal is handled and no connection ever
\* becomes Active, the stop request is satisfied at once and Serve returns
\* with Stopped for every timeout: after the stop request the coordinator is
\* either about to receive the completion or has returned Stopped.
C4_StopsWithoutTimer ==
    (SigHandled /\ err = AcceptClosedErr /\ doneReg /\ NoneEverActive) =>
        \/ mainPc = "wait" /\ trkPc = "done"
        \/ mainPc = "returned" /\ outcome = "Stopped"

\* C5: With timeout = 0 the coordinator never issues Kill, the tracker never
\* closes a connection, a run that ends ends in Stopped, and Serve does not
\* return while a connection is in the active set.
C5_ZeroTimeoutNeverKills ==
    timeout = 0 =>
        /\ mainPc # "kill"
        /\ trkPc # "killing"
        /\ outcome # "Forced"
        /\ forced = {}
        /\ ServeReturned => (outcome = "Stopped" /\ connections = {})

\* C5 witness: timeout = 0, requests were in flight at the stop request, and
\* Serve has returned.
C5_Witness ==
    /\ timeout = 0
    /\ ServeReturned
    /\ ~idleAtStop
    /\ \E c \in Conns : resp[c] = "200"

C7_SingleShot ==
    /\ shutdownRuns <= 1
    /\ listenerCloses <= 1
    /\ wPc # "panic"

\* An idle keep-alive connection is open and the stop request was processed
\* with an empty active set after the watcher closed the listener.  (The Idle
\* report of a connection is delivered by the tracker's select, which is not
\* entered again after such a stop request: the connection was idle then.)
IdleOnlyAtStop ==
    /\ idleAtStop
    /\ err = AcceptClosedErr
    /\ \E c \in Conns : st[c] = "idle" /\ pend[c] = "none"

\* C8: Idle connections do not block drain.  An idle connection is not in
\* the active set, and if the open connections are idle when the stop request
\* is processed, completion is signalled at once and Serve returns: the
\* coordinator is either about to receive the completion or has returned
\* Stopped.
C8_IdleDoesNotBlockDrain ==
    /\ \A c \in Conns : (st[c] = "idle" /\ pend[c] = "none") => c \notin connections
    /\ IdleOnlyAtStop =>
          \/ mainPc = "wait" /\ trkPc = "done"
          \/ mainPc = "returned" /\ outcome = "Stopped"

\* C9: After the server has received the signal, every new request made to
\* it is answered with 503 Service Unavailable: a client that connects after
\* the watcher handled the signal and closed the listener sees no other
\* answer.
C9_LateRequestsGet503 ==
    \A c \in lateDial : resp[c] \in {"none", "503"}

\* C10: Run treats as success only an accept error caused by the closed
\* listener; every other error is fatal.
C10_RunSuccessOnlyOnClosedListener ==
    /\ runResult = "success" => (err.op = "accept" /\ err.cause = "closed")
    /\ runResult = "fatal" => ~(err.op = "accept" /\ err.cause = "closed")

\* Neither the tracker nor the watcher has been started, signal.Notify has
\* not been called and the accept loop has accepted nothing.
NothingStarted ==
    /\ trkPc = "unstarted"
    /\ wPc = "unstarted"
    /\ ~notifyOn
    /\ \A c \in Conns : st[c] \in {"none", "backlog", "refused"}

\* C11: A shutdown triggered by the signal watcher is not reported as an
\* error by ListenAndServe, ListenAndServeTLS and Serve: when the accept loop
\* ended because the watcher closed the listener, the value returned to the
\* caller is success (nil), not the listener-closed accept error.
C11_ShutdownNotAnError ==
    (mainPc = "returned" /\ SigHandled /\ err = AcceptClosedErr) => retVal = NoErr

\* C12: Start-up failures leave nothing behind.  A certificate load failure
\* is returned before any listener is created and before the tracker, the
\* watcher or the accept loop is started; a bind failure is returned without
\* starting them; and a listener that was created is handed to the accept
\* loop: the entry point never returns with a created listener that Serve
\* did not run the accept loop on.
C12_StartupLeavesNothing ==
    /\ (mainPc = "returned" /\ retVal = CertErr) =>
          (entry = "ListenAndServeTLS" /\ ~created /\ ~listenerOpen /\ NothingStarted)
    /\ (mainPc = "returned" /\ retVal = BindErr) =>
          (~created /\ ~listenerOpen /\ NothingStarted)
    /\ mainPc \in {"cert", "listen"} => (~created /\ NothingStarted)
    /\ (created /\ mainPc = "returned") =>
          (err.op = "accept" /\ trkPc # "unstarted" /\ wPc # "unstarted")

\* C12 witness: ListenAndServeTLS has returned the certificate load failure.
C12_Witness ==
    entry = "ListenAndServeTLS" /\ mainPc = "returned" /\ retVal = CertErr

\* The tracker goroutine has been started and has not returned.
TrackerRunning == trkPc \in {"select", "done", "killing"}

\* C13: Active-set invariant.  While the tracker is running, a connection is
\* in the active set if and only if the last event the tracker processed for
\* it is Active: Active inserts the handle, Idle or Closed removes it, and an
\* Idle or Closed event for a handle that is not in the set changes nothing.
C13_ActiveSetInvariant ==
    TrackerRunning => \A c \in Conns : (c \in connections) <=> (st[c] = "active")

\* C13 witness: the tracker is running, it has processed Active for one
\* connection that is still mid-request, and it has processed Closed for a
\* connection that never sent a request (a removal of an absent handle).
C13_Witness ==
    /\ TrackerRunning
    /\ \E c \in Conns : c \in connections /\ st[c] = "active"
    /\ \E c \in Conns : st[c] = "closed" /\ resp[c] = "none" /\ c \notin connections

\* C14: Stop-and-wait completion.  The tracker signals completion only when
\* a stop-and-wait request is registered and the active set is empty; it
\* never waits in its select with a registered request and an empty set (it
\* signals at once when the request arrives on an empty set, otherwise at the
\* first removal that empties the set); it signals at most once; and after
\* signalling it processes no further event: the set, the registration and
\* every report still waiting to be received stay as they are.
C14_StopAndWaitCompletion ==
    /\ [](/\ trkPc = "done" => (doneReg /\ connections = {})
          /\ (doneReg /\ trkPc = "select") => connections # {}
          /\ doneSignals <= 1
          /\ doneSignals > 0 => (doneReg /\ trkPc \in {"done", "exited"}))
    /\ [][doneSignals > 0 =>
             /\ connections' = connections
             /\ doneReg' = doneReg
             /\ doneSignals' = doneSignals
             /\ \A c \in Conns : pend[c] # "none" => (pend'[c] = pend[c] /\ st'[c] = st[c])]_vars

\* C14 witness: the stop request arrived while a request was in flight, and
\* the tracker signalled completion at the removal that emptied the set.
C14_Witness ==
    /\ doneSignals = 1
    /\ ~idleAtStop
    /\ connections = {}
    /\ \E c \in Conns : resp[c] = "200"

\* C15: Kill closes the whole registry.  When the tracker has processed Kill,
\* every handle that was in the active set at that moment has been closed
\* and the tracker has terminated; from the moment Kill is received the
\* active set is never mutated again and the tracker never runs again.
C15_KillClosesRegistry ==
    /\ []((outcome = "Forced" /\ trkPc = "exited") => forced = connections)
    /\ []((outcome = "Forced") => trkPc \in {"killing", "exited"})
    /\ [][outcome = "Forced" =>
             /\ connections' = connections
             /\ (trkPc = "exited" => trkPc' = "exited" /\ forced' = forced)]_vars

\* C15 witness: Kill was processed with two connections in the active set
\* and both have been closed.
C15_Witness ==
    /\ outcome = "Forced"
    /\ trkPc = "exited"
    /\ Cardinality(connections) >= 2
    /\ forced = connections

\* The state of the shutdown session: Running until the watcher starts the
\* shutdown or the accept loop returns, Draining until the coordinator
\* returns, then Stopped (completion received) or Forced (Kill processed).
SessionState ==
    CASE mainPc = "returned" /\ outcome = "Stopped" -> "Stopped"
      [] mainPc = "returned" /\ outcome = "Forced"  -> "Forced"
      [] mainPc \in {"stop", "wait", "kill"}         -> "Draining"
      [] OTHER -> IF SigHandled THEN "Draining" ELSE "Running"

SessionRank(s) == CASE s = "Running" -> 0 [] s = "Draining" -> 1 [] OTHER -> 2

\* C16: The shutdown session moves only forward along
\* Running -> Draining -> {Stopped | Forced}: no step takes it to an earlier
\* state, a terminal outcome is never changed, and the two outcomes exclude
\* each other: the coordinator never both receives the completion and has its
\* Kill processed.
C16_SessionMonotonic ==
    /\ [](outcome = "Stopped" => (trkPc = "exited" /\ forced = {} /\ mainPc = "returned"))
    /\ [](outcome = "Forced" => (trkPc \in {"killing", "exited"} /\ mainPc = "returned"))
    /\ [][/\ SessionRank(SessionState') >= SessionRank(SessionState)
          /\ SessionState \in {"Stopped", "Forced"} => SessionState' = SessionState
          /\ outcome # "none" => outcome' = outcome]_vars

\* C16 witness: a session that went through Draining with the timer armed
\* and a request in flight, and ended Stopped.
C16_Witness ==
    /\ SessionState = "Stopped"
    /\ timeout > 0
    /\ SigHandled
    /\ ~idleAtStop

\* The accept loop has returned (srv.Server.Serve always returns an error).
AcceptLoopReturned == err.op = "accept"

\* The coordinator has issued the stop-and-wait request or gone further.
DrainStarted == mainPc \in {"stop", "wait", "kill"} \/ ServeReturned

\* C17: Draining begins only through the signal watcher: whenever the accept
\* loop has returned and the coordinator is at or past the stop-and-wait
\* request, the watcher has disabled keep-alive and closed the listener, in
\* that order; the coordinator never drains with the listener open or
\* keep-alive enabled.
C17_DrainOnlyAfterWatcher ==
    /\ listenerCloses > 0 => ~keepAlive
    /\ DrainStarted => (~keepAlive /\ listenerCloses > 0 /\ ~listenerOpen)

\* C18: Kill is never issued before the stop-and-wait request.  The tracker
\* has received the stop-and-wait request before the coordinator waits on its
\* timer and before any Kill is sent or processed, the request is issued only
\* after the accept loop has returned, and no Stopped or Forced transition
\* happens before that.
C18_StopBeforeKill ==
    /\ mainPc \in {"wait", "kill"} => doneReg
    /\ (trkPc = "killing" \/ outcome # "none" \/ forced # {}) => doneReg
    /\ (doneReg \/ mainPc \in {"stop", "wait", "kill"}) => AcceptLoopReturned
    /\ outcome # "none" => AcceptLoopReturned

\* C18 witness: the timer expired with a request in flight and Kill has been
\* processed, after the stop-and-wait request.
C18_Witness ==
    /\ outcome = "Forced"
    /\ trkPc = "exited"
    /\ forced # {}
    /\ doneReg

\* C19: No connection is stranded reporting its state: every Active, Idle or
\* Closed report made through the ConnState callback is eventually received
\* by the tracker, so no report is ever waiting in add <- conn or
\* remove <- conn when the tracker goroutine has returned, and the user hook
\* that follows the send is reached for every reported transition.  Stated
\* for a shutdown by signal.
C19_NoStrandedReport ==
    (SigHandled /\ err = AcceptClosedErr) =>
        \A c \in Conns : pend[c] # "none" => trkPc # "exited"

=============================================================================
